---- MODULE Spec2Model ----
(***************************************************************************)
(* Model of the HybridNet simulation core (krishnav-arora/SimQ-ai):        *)
(*   backend/app/link_models.py   stochastic single-hop models             *)
(*   backend/app/simulator.py     quantum / classical path simulators      *)
(*   backend/policy_registry.py   name -> routing function store           *)
(*   backend/app/routing.py       policies, send_message,                  *)
(*                                send_message_reliable                    *)
(*   backend/app/repeater_env.py  RepeaterEnv                              *)
(*   backend/app/repeater_agent.py hill_climb                              *)
(*                                                                         *)
(* Random draws are nondeterministic choices over the outcomes the draw    *)
(* can produce.  Distances are whole kilometres.  Latency and the          *)
(* probability fields of the metrics dictionaries are not modelled: no     *)
(* control flow reads them.                                                *)
(***************************************************************************)
EXTENDS Integers, Sequences, FiniteSets, TLC

\* ---------------------------------------------------------------------
\* Bounds of the model
\* ---------------------------------------------------------------------
\* largest edge distance (km) of an input graph
MaxDist == 1
\* largest number of nodes a plan built by hybrid() may hold
MaxPlanLen == 4

\* largest number of nodes of a path handed to a path simulator
MaxPathLen == 4

\* largest max_repeaters of a RepeaterEnv
MaxBudget == 2
\* largest iteration budget handed to hill_climb
MaxIter == 2
\* trials of a RepeaterEnv
Trials == 2
\* largest number of hop calls a process makes on link_models
MaxCalls == 2
\* largest n_qubits of a run_bb84 session
MaxQubits == 3

\* node ids of the input graphs
Nodes == {0, 1, 2}
Dists == 0..MaxDist
\* the graphs are closed under renaming nodes: calls start at node 0
Sources == {0}
\* a node number no graph holds
UnknownNode == Cardinality(Nodes)
\* the destinations passed by callers
Targets == Nodes \cup {UnknownNode}

\* ---------------------------------------------------------------------
\* Graphs (networkx.Graph with the attributes the builders set)
\* ---------------------------------------------------------------------
Edges == {e \in SUBSET Nodes : Cardinality(e) = 2}
EdgeData == [quantum : BOOLEAN, distance_km : Dists]
NodeData == [quantum : BOOLEAN, can_store_entanglement : BOOLEAN]

\* build_hybrid_graph: can_store_entanglement only on quantum nodes, an
\* edge is a quantum link only between two quantum nodes
WellFormed(g) ==
    /\ \A n \in Nodes : g.node[n].can_store_entanglement => g.node[n].quantum
    /\ \A e \in DOMAIN g.edge :
          g.edge[e].quantum => \A n \in e : g.node[n].quantum

Graphs ==
    {g \in [node : [Nodes -> NodeData],
            edge : UNION {[es -> EdgeData] : es \in SUBSET Edges}] :
        WellFormed(g)}

HasEdge(g, u, v) == {u, v} \in DOMAIN g.edge
EdgeOf(g, u, v) == g.edge[{u, v}]

\* the edges with quantum=True, as Q / sub are built in the policies
QuantumEdges(g) == {e \in DOMAIN g.edge : g.edge[e].quantum}
\* a graph built from an edge list holds exactly the endpoints of its edges
NodesOf(es) == UNION es

\* ---------------------------------------------------------------------
\* routing.py: edge-cost helpers (integer-scaled)
\* ---------------------------------------------------------------------
\* -log(max(exp(-d/50), 1e-9)) = min(d/50, ln 1e9); scaled by 5000:
\* min(100 d, 103616)
QWeightCap == 103616
q_weight(dist_km) ==
    IF 100 * dist_km > QWeightCap THEN QWeightCap ELSE 100 * dist_km

\* dist_km * 0.005 ms, in microseconds
LatencyUsPerKm == 5
c_latency_weight(dist_km) == dist_km * LatencyUsPerKm

\* weight of one edge under the weight argument of nx.shortest_path
EdgeWeight(kind, d) ==
    CASE kind = "q_weight"    -> q_weight(d.distance_km)
      [] kind = "c_latency"   -> c_latency_weight(d.distance_km)
      [] kind = "distance_km" -> d.distance_km
      [] OTHER                -> 1

\* ---------------------------------------------------------------------
\* networkx.shortest_path(G, s, t, weight): one minimum-weight path;
\* which one among equal-weight paths is left open.
\* ---------------------------------------------------------------------
SimpleSeqs ==
    {p \in UNION {[1..n -> Nodes] : n \in 1..Cardinality(Nodes)} :
        \A i, j \in DOMAIN p : i # j => p[i] # p[j]}

IsPathIn(es, p) == \A i \in 1..(Len(p) - 1) : {p[i], p[i + 1]} \in es

RECURSIVE PathWeight(_, _, _)
PathWeight(g, kind, p) ==
    IF Len(p) < 2 THEN 0
    ELSE EdgeWeight(kind, EdgeOf(g, p[1], p[2])) + PathWeight(g, kind, Tail(p))

SimplePaths(es, s, t) ==
    {p \in SimpleSeqs : p[1] = s /\ p[Len(p)] = t /\ IsPathIn(es, p)}

has_path(es, s, t) == SimplePaths(es, s, t) # {}

Return(p) == [kind |-> "path", path |-> p, exc |-> ""]
None == [kind |-> "none", path |-> <<>>, exc |-> ""]
Raise(e) == [kind |-> "raise", path |-> <<>>, exc |-> e]

\* vs: the nodes of the graph searched, es: its edges
shortest_path(g, vs, es, kind, s, t) ==
    IF s \notin vs \/ t \notin vs THEN {Raise("NodeNotFound")}
    ELSE IF ~has_path(es, s, t) THEN {Raise("NetworkXNoPath")}
    ELSE LET ps == SimplePaths(es, s, t)
         IN {Return(p) : p \in {q \in ps :
                \A r \in ps : PathWeight(g, kind, q) <= PathWeight(g, kind, r)}}

\* Python truthiness of a policy result (None and [] are falsy)
Truthy(o) == o.kind = "path" /\ Len(o.path) > 0

\* ---------------------------------------------------------------------
\* link_models.py: the outcomes each random draw can produce
\* ---------------------------------------------------------------------
\* exp(-d / COHERENCE_LENGTH_KM) clipped to [0,1] is 1 exactly when d = 0
\* and lies strictly between 0 and 1 for every other modelled distance
quantum_survival_prob(distance_km) == IF distance_km = 0 THEN "one" ELSE "between"

\* success flags simulate_quantum_hop can return for an edge
simulate_quantum_hop(edge_data) ==
    IF ~edge_data.quantum
    THEN BOOLEAN                                   \* random() > 0.5
    ELSE IF quantum_survival_prob(edge_data.distance_km) = "one"
         THEN {TRUE}                               \* random() < 1.0
         ELSE BOOLEAN

\* simulate_entanglement_swap with the draw made whatever the node stores
SwapDrawnAnywhere(can_swap) == BOOLEAN

\* success flags simulate_entanglement_swap can return
simulate_entanglement_swap(can_swap) ==
    IF ~can_swap THEN {FALSE} ELSE BOOLEAN         \* random() < 0.85

\* success flags simulate_classical_hop can return (random() > p_loss)
simulate_classical_hop(edge_data) == BOOLEAN

\* ---------------------------------------------------------------------
\* simulator.py: simulate_path_quantum
\* ---------------------------------------------------------------------
_node_can_swap(g, n) == g.node[n].can_store_entanglement

\* hops as set in the metrics dictionary at entry
QuantumHopsField(path) == Len(path) - 1

\* the return after the loop: all hops and swaps passed
QuantumFinish(st) ==
    [st EXCEPT !.metrics.success = TRUE, !.returned = TRUE]

\* state at entry: the metrics dictionary, the loop index (1-based) and
\* the draws made so far; a path without edges falls through the loop
QuantumEnter(path) ==
    LET st == [path |-> path, i |-> 1,
               metrics |-> [hops |-> QuantumHopsField(path),
                            mode |-> "quantum_path",
                            total_distance_km |-> 0,
                            success |-> FALSE],
               returned |-> FALSE,
               hop_draws |-> <<>>, swap_draws |-> <<>>]
    IN IF Len(path) - 1 < 1 THEN QuantumFinish(st) ELSE st

\* does iteration i draw an entanglement swap after a successful hop
NeedsSwap(st) == st.i < Len(st.path) - 1

\* QuantumIter with a failed swap not ending the call
QuantumIterIgnoreSwap(g, st, hop_ok, swap_ok) ==
    LET edge_data == EdgeOf(g, st.path[st.i], st.path[st.i + 1])
        acc == [st EXCEPT
                  !.metrics.total_distance_km = @ + edge_data.distance_km,
                  !.hop_draws = Append(@, hop_ok),
                  !.swap_draws = IF hop_ok /\ NeedsSwap(st)
                                 THEN Append(@, swap_ok) ELSE @]
    IN IF ~hop_ok THEN [acc EXCEPT !.returned = TRUE]
       ELSE IF st.i + 1 > Len(st.path) - 1
            THEN QuantumFinish([acc EXCEPT !.i = @ + 1])
            ELSE [acc EXCEPT !.i = @ + 1]

\* QuantumIter with hops counted as the hops attempted so far
QuantumIterCountHops(g, st, hop_ok, swap_ok) ==
    LET edge_data == EdgeOf(g, st.path[st.i], st.path[st.i + 1])
        acc == [st EXCEPT
                  !.metrics.total_distance_km = @ + edge_data.distance_km,
                  !.metrics.hops = st.i,
                  !.hop_draws = Append(@, hop_ok)]
    IN IF ~hop_ok THEN [acc EXCEPT !.returned = TRUE]
       ELSE IF NeedsSwap(st)
            THEN LET sw == [acc EXCEPT !.swap_draws = Append(@, swap_ok)]
                 IN IF ~swap_ok THEN [sw EXCEPT !.returned = TRUE]
                    ELSE [sw EXCEPT !.i = @ + 1]
            ELSE IF st.i + 1 > Len(st.path) - 1
                 THEN QuantumFinish([acc EXCEPT !.i = @ + 1])
                 ELSE [acc EXCEPT !.i = @ + 1]

\* QuantumIter with the distance of a hop added only once the hop succeeded
QuantumIterDistanceLate(g, st, hop_ok, swap_ok) ==
    LET edge_data == EdgeOf(g, st.path[st.i], st.path[st.i + 1])
        drawn == [st EXCEPT !.hop_draws = Append(@, hop_ok)]
        acc == [drawn EXCEPT
                  !.metrics.total_distance_km = @ + edge_data.distance_km]
    IN IF ~hop_ok THEN [drawn EXCEPT !.returned = TRUE]
       ELSE IF NeedsSwap(st)
            THEN LET sw == [acc EXCEPT !.swap_draws = Append(@, swap_ok)]
                 IN IF ~swap_ok THEN [sw EXCEPT !.returned = TRUE]
                    ELSE [sw EXCEPT !.i = @ + 1]
            ELSE IF st.i + 1 > Len(st.path) - 1
                 THEN QuantumFinish([acc EXCEPT !.i = @ + 1])
                 ELSE [acc EXCEPT !.i = @ + 1]

\* one iteration of the loop, hop_ok / swap_ok being the draws' outcomes
\* (swap_ok is read only when the swap is drawn)
QuantumIter(g, st, hop_ok, swap_ok) ==
    LET u == st.path[st.i]
        v == st.path[st.i + 1]
        edge_data == EdgeOf(g, u, v)
        acc == [st EXCEPT
                  !.metrics.total_distance_km = @ + edge_data.distance_km,
                  !.hop_draws = Append(@, hop_ok)]
    IN IF ~hop_ok THEN [acc EXCEPT !.returned = TRUE]
       ELSE IF NeedsSwap(st)
            THEN LET sw == [acc EXCEPT !.swap_draws = Append(@, swap_ok)]
                 IN IF ~swap_ok THEN [sw EXCEPT !.returned = TRUE]
                    ELSE [sw EXCEPT !.i = @ + 1]
            ELSE IF st.i + 1 > Len(st.path) - 1
                 THEN QuantumFinish([acc EXCEPT !.i = @ + 1])
                 ELSE [acc EXCEPT !.i = @ + 1]

\* the pairs of draw outcomes iteration i can see
QuantumDraws(g, st) ==
    LET edge_data == EdgeOf(g, st.path[st.i], st.path[st.i + 1])
    IN UNION {{<<h, s>> : s \in
                  IF h /\ NeedsSwap(st)
                  THEN simulate_entanglement_swap(_node_can_swap(g, st.path[st.i + 1]))
                  ELSE {FALSE}} :
              h \in simulate_quantum_hop(edge_data)}

\* every final state a call can end in
RECURSIVE QuantumRuns(_, _)
QuantumRuns(g, st) ==
    IF st.returned THEN {st}
    ELSE UNION {QuantumRuns(g, QuantumIter(g, st, d[1], d[2])) :
                d \in QuantumDraws(g, st)}

\* the metrics dictionaries simulate_path_quantum(G, path) can return
simulate_path_quantum(g, path) ==
    {st.metrics : st \in QuantumRuns(g, QuantumEnter(path))}

\* ---------------------------------------------------------------------
\* simulator.py: simulate_path_classical
\* ---------------------------------------------------------------------
\* lost_hop is <<>> for None
ClassicalEnter(path) ==
    [path |-> path, i |-> 1,
     metrics |-> [hops |-> Len(path) - 1,
                  mode |-> "classical_path",
                  total_distance_km |-> 0,
                  success |-> TRUE,
                  lost_hop |-> <<>>],
     returned |-> Len(path) - 1 < 1,
     hop_draws |-> <<>>]

\* ClassicalIter with the walk ending at the first lost hop
ClassicalIterStopAtLoss(g, st, hop_ok) ==
    LET u == st.path[st.i]
        v == st.path[st.i + 1]
        edge_data == EdgeOf(g, u, v)
        acc == [st EXCEPT
                  !.metrics.total_distance_km = @ + edge_data.distance_km,
                  !.hop_draws = Append(@, hop_ok),
                  !.i = @ + 1,
                  !.returned = st.i + 1 > Len(st.path) - 1]
    IN IF ~hop_ok /\ st.metrics.success
       THEN [acc EXCEPT !.metrics.success = FALSE,
                        !.metrics.lost_hop = <<u, v>>,
                        !.returned = TRUE]
       ELSE acc

\* ClassicalIter with every lost hop recorded in lost_hop
ClassicalIterLastLoss(g, st, hop_ok) ==
    LET u == st.path[st.i]
        v == st.path[st.i + 1]
        edge_data == EdgeOf(g, u, v)
        acc == [st EXCEPT
                  !.metrics.total_distance_km = @ + edge_data.distance_km,
                  !.hop_draws = Append(@, hop_ok),
                  !.i = @ + 1,
                  !.returned = st.i + 1 > Len(st.path) - 1]
    IN IF ~hop_ok
       THEN [acc EXCEPT !.metrics.success = FALSE,
                        !.metrics.lost_hop = <<u, v>>]
       ELSE acc

\* lines 79-87: one iteration of the loop, hop_ok being the draw's outcome
ClassicalIter(g, st, hop_ok) ==
    LET u == st.path[st.i]
        v == st.path[st.i + 1]
        edge_data == EdgeOf(g, u, v)
        acc == [st EXCEPT
                  !.metrics.total_distance_km = @ + edge_data.distance_km,
                  !.hop_draws = Append(@, hop_ok),
                  !.i = @ + 1,
                  !.returned = st.i + 1 > Len(st.path) - 1]
    IN IF ~hop_ok /\ st.metrics.success
       THEN [acc EXCEPT !.metrics.success = FALSE,
                        !.metrics.lost_hop = <<u, v>>]
       ELSE acc

RECURSIVE ClassicalRuns(_, _)
ClassicalRuns(g, st) ==
    IF st.returned THEN {st}
    ELSE UNION {ClassicalRuns(g, ClassicalIter(g, st, h)) :
                h \in simulate_classical_hop(
                         EdgeOf(g, st.path[st.i], st.path[st.i + 1]))}

simulate_path_classical(g, path) ==
    {st.metrics : st \in ClassicalRuns(g, ClassicalEnter(path))}

\* ---------------------------------------------------------------------
\* routing.py: the registered policies
\* ---------------------------------------------------------------------
quantum_only(g, src, dst) ==
    LET sub == QuantumEdges(g)
    IN IF src \notin NodesOf(sub) \/ dst \notin NodesOf(sub)
          \/ ~has_path(sub, src, dst)
       THEN {None}
       ELSE shortest_path(g, NodesOf(sub), sub, "q_weight", src, dst)

\* classical_latency searching the non-quantum links only
classical_latency_nonquantum(g, src, dst) ==
    {IF o.kind = "raise" /\ o.exc = "NetworkXNoPath" THEN None ELSE o :
        o \in shortest_path(g, Nodes, DOMAIN g.edge \ QuantumEdges(g),
                            "c_latency", src, dst)}

classical_latency(g, src, dst) ==
    {IF o.kind = "raise" /\ o.exc = "NetworkXNoPath" THEN None ELSE o :
        o \in shortest_path(g, Nodes, DOMAIN g.edge, "c_latency", src, dst)}

\* llm_policy_builder.py: the fallback heuristic create_policy_from_prompt
\* registers; weight is "distance_km" when the prompt mentions distance
heuristic(g, weighted, src, dst) ==
    shortest_path(g, Nodes, DOMAIN g.edge,
                  IF weighted THEN "distance_km" ELSE "none", src, dst)

\* hybrid(): state of the while loop
HybridEnter(src, dst, caller) ==
    [pc |-> IF src = dst THEN "exit" ELSE "loop", caller |-> caller,
     path |-> <<src>>, here |-> src, dst |-> dst, exc |-> ""]

HybridIdle ==
    [pc |-> "idle", caller |-> "none", path |-> <<>>, here |-> 0, dst |-> 0,
     exc |-> ""]

\* HybridQPath searching every link of G instead of the quantum subgraph
HybridQPathAnyEdge(g, here, dst) ==
    {IF o.kind = "raise" THEN None ELSE o :
        o \in shortest_path(g, Nodes, DOMAIN g.edge, "q_weight", here, dst)}

\* the quantum-only path searched from 'here'; both exceptions are caught
HybridQPath(g, here, dst) ==
    {IF o.kind = "raise" THEN None ELSE o :
        o \in shortest_path(g, NodesOf(QuantumEdges(g)), QuantumEdges(g),
                            "q_weight", here, dst)}

\* the states one iteration of the while loop can lead to
HybridIter(g, h) ==
    UNION {
      IF Truthy(qpath) /\ Len(qpath.path) > 1
      THEN LET next_hop == qpath.path[2]
           IN {[h EXCEPT !.path = Append(@, next_hop),
                         !.here = next_hop,
                         !.pc = IF next_hop = h.dst THEN "exit" ELSE "loop"]}
      ELSE {IF c_tail.kind = "raise"
            THEN [h EXCEPT !.pc = "raised", !.exc = c_tail.exc]
            ELSE [h EXCEPT !.path = IF Truthy(c_tail) THEN @ \o Tail(c_tail.path) ELSE @,
                           !.pc = "exit"] :
               c_tail \in classical_latency(g, h.here, h.dst)} :
      qpath \in HybridQPath(g, h.here, h.dst)}

\* what hybrid() hands to its caller: its path, or the exception of the
\* classical_latency call it does not guard
HybridResult(h) == IF h.pc = "raised" THEN Raise(h.exc) ELSE Return(h.path)

\* ---------------------------------------------------------------------
\* policy_registry.py and the names send_message_reliable resolves
\* ---------------------------------------------------------------------
BuiltinPolicies ==
    [quantum_only |-> "quantum_only",
     classical_latency |-> "classical_latency",
     hybrid |-> "hybrid"]

\* names a caller may pass as policy
CustomNames == {"judge_policy"}
PolicyNames == DOMAIN BuiltinPolicies \cup CustomNames
\* functions create_policy_from_prompt can register
CustomFns == {"heuristic_hops", "heuristic_distance"}

\* get(name): POLICIES[name], KeyError for an unregistered name
get_policy(registry, name) ==
    IF name \in DOMAIN registry THEN Return(<<registry[name]>>) ELSE Raise("KeyError")

\* globals().get(policy, hybrid) in routing.py: the module's globals hold
\* the three decorated functions and no registered custom policy
GlobalsGet(policy) ==
    IF policy \in DOMAIN BuiltinPolicies THEN BuiltinPolicies[policy] ELSE "hybrid"

\* mode_lookup.get(policy, policy)
init_mode(policy) ==
    CASE policy = "quantum_only"      -> "quantum_path"
      [] policy = "classical_latency" -> "classical_path"
      [] policy = "hybrid"            -> "hybrid_path"
      [] OTHER                        -> policy

\* the results a policy function other than hybrid can produce
PolicyCall(fn, g, src, dst) ==
    CASE fn = "quantum_only"       -> quantum_only(g, src, dst)
      [] fn = "classical_latency"  -> classical_latency(g, src, dst)
      [] fn = "heuristic_hops"     -> heuristic(g, FALSE, src, dst)
      [] fn = "heuristic_distance" -> heuristic(g, TRUE, src, dst)

\* {"mode": tag, **res, "path": edge_path}: later keys win, so the mode of
\* the simulator's metrics replaces the tag
HistoryRecord(tag, res, edge_path) ==
    ("path" :> edge_path) @@ res @@ ("mode" :> tag)

\* ---------------------------------------------------------------------
\* State
\* ---------------------------------------------------------------------
VARIABLES
    G,          \* the graph passed to every operation
    POLICIES,   \* policy_registry.POLICIES: name -> policy function
    hy,         \* the running call of hybrid()
    rel,        \* the running call of send_message_reliable()
    snd,        \* the running call of send_message()
    qsim,       \* the running call of simulate_path_quantum()
    csim,       \* the running call of simulate_path_classical()
    env,        \* the RepeaterEnv
    hc,         \* the running call of hill_climb()
    bb,         \* the running call of run_bb84()
    rng         \* two processes drawing hops from link_models._rng

vars == <<G, POLICIES, hy, rel, snd, qsim, csim, env, hc, bb, rng>>
routingVars == <<POLICIES, hy, rel, snd>>
simVars == <<qsim, csim>>
optVars == <<env, hc>>
qkdVars == <<bb>>
rngVars == <<rng>>

NoResult == [pending |-> TRUE]

RelIdle ==
    [pc |-> "idle", policy |-> "", src |-> 0, dst |-> 0, init_mode |-> "",
     path_fn |-> "", full_path |-> <<>>, i |-> 0, assembled |-> <<>>,
     history |-> <<>>, tail |-> <<>>, j |-> 0, result |-> NoResult, exc |-> "",
     swaps |-> 0]     \* swaps: calls of simulate_entanglement_swap so far

SndIdle ==
    [pc |-> "idle", policy |-> "", src |-> 0, dst |-> 0, path_fn |-> "",
     path |-> <<>>, sims |-> <<>>, result |-> NoResult, exc |-> ""]

SimIdle == [pc |-> "idle"]
EnvIdle == [pc |-> "idle"]

\* the repeater mask: np.int8 vector indexed by node
Masks == [Nodes -> {0, 1}]
Zeros == [n \in Nodes |-> 0]
MaskSum(m) == Cardinality({n \in Nodes : m[n] = 1})
\* m[n] ^= 1
Toggle(m, n) == [m EXCEPT ![n] = 1 - @]

HcIdle ==
    [pc |-> "idle", iterations |-> 0, it |-> 0, best_mask |-> Zeros,
     best_reward |-> 0, candidate |-> Zeros,
     last |-> [computed |-> FALSE, reward |-> 0], calls |-> 0,
     result |-> NoResult]

\* a fraction, as numerator and denominator
Ratio(num, den) == [num |-> num, den |-> den]

BB84Idle ==
    [pc |-> "idle", n_qubits |-> 0, p_noise |-> "zero", pns |-> FALSE,
     pulses |-> <<>>, idx |-> {}, qber |-> Ratio(0, 1),
     y_sig |-> Ratio(0, 1), y_dec |-> Ratio(0, 1),
     result |-> NoResult, exc |-> ""]

\* random.Random(seed) before any draw: nothing consumed, no cached gauss
Seeded == [pos |-> 0, gauss_next |-> <<>>]

RngIdle ==
    [pc |-> "idle", stream |-> <<>>, calls |-> <<>>,
     A |-> [st |-> Seeded, outs |-> <<>>],
     B |-> [st |-> Seeded, outs |-> <<>>]]

RoutingIdle == rel.pc = "idle" /\ snd.pc = "idle" /\ hy.pc = "idle"

\* ---------------------------------------------------------------------
\* policy_registry.register, as create_policy_from_prompt calls it
\* ---------------------------------------------------------------------
register ==
    /\ RoutingIdle
    /\ \E name \in CustomNames, fn \in CustomFns :
          /\ name \notin DOMAIN POLICIES
          /\ POLICIES' = (name :> fn) @@ POLICIES
    /\ UNCHANGED <<G, hy, rel, snd, simVars, optVars, qkdVars, rngVars>>

\* ---------------------------------------------------------------------
\* routing.py: hybrid(), one loop iteration per step
\* ---------------------------------------------------------------------
HybridStep ==
    /\ hy.pc = "loop"
    /\ Len(hy.path) < MaxPlanLen
    /\ \E h \in HybridIter(G, hy) : hy' = h
    /\ UNCHANGED <<G, POLICIES, rel, snd, simVars, optVars, qkdVars, rngVars>>

\* ---------------------------------------------------------------------
\* routing.py: send_message_reliable()
\* ---------------------------------------------------------------------
\* lines 154-160: the no_path test on the plan, else the walk starts
ReliableAfterPlan(r, o) ==
    IF o.kind = "raise"
    THEN [r EXCEPT !.pc = "raised", !.exc = o.exc]
    ELSE IF ~Truthy(o) \/ Len(o.path) < 2
    THEN [r EXCEPT !.pc = "done",
                   !.result = [success |-> FALSE, reason |-> "no_path",
                               history |-> r.history]]
    ELSE [r EXCEPT !.pc = "walk", !.full_path = o.path, !.i = 1,
                   !.assembled = <<o.path[1]>>]

ReliableSuccess(r, assembled, history) ==
    [r EXCEPT !.pc = "done", !.assembled = assembled, !.history = history,
              !.result = [success |-> TRUE, mode |-> r.init_mode,
                          path |-> assembled, history |-> history]]

\* lines 137-153: resolve the policy and build the plan
send_message_reliable ==
    /\ RoutingIdle
    /\ \E src \in Sources, dst \in Targets, policy \in PolicyNames :
          LET r == [RelIdle EXCEPT !.policy = policy, !.src = src, !.dst = dst,
                                   !.init_mode = init_mode(policy),
                                   !.path_fn = GlobalsGet(policy)]
          IN IF r.path_fn = "hybrid"
             THEN /\ rel' = [r EXCEPT !.pc = "plan"]
                  /\ hy' = HybridEnter(src, dst, "send_message_reliable")
             ELSE /\ \E o \in PolicyCall(r.path_fn, G, src, dst) :
                        rel' = ReliableAfterPlan(r, o)
                  /\ hy' = hy
    /\ UNCHANGED <<G, POLICIES, snd, simVars, optVars, qkdVars, rngVars>>

\* hybrid() returned its plan
ReliablePlanned ==
    /\ rel.pc = "plan"
    /\ hy.pc \in {"exit", "raised"}
    /\ rel' = ReliableAfterPlan(rel, HybridResult(hy))
    /\ hy' = HybridIdle
    /\ UNCHANGED <<G, POLICIES, snd, simVars, optVars, qkdVars, rngVars>>

\* ReliableAdvance with the hop's start appended in place of its end
ReliableAdvanceStart(r, v, history) ==
    IF r.i + 1 > Len(r.full_path) - 1
    THEN ReliableSuccess(r, Append(r.assembled, r.full_path[r.i]), history)
    ELSE [r EXCEPT !.history = history,
                   !.assembled = Append(@, r.full_path[r.i]), !.i = @ + 1]

\* line 192 and the loop's end: the hop counts as traversed
ReliableAdvance(r, v, history) ==
    IF r.i + 1 > Len(r.full_path) - 1
    THEN ReliableSuccess(r, Append(r.assembled, v), history)
    ELSE [r EXCEPT !.history = history, !.assembled = Append(@, v),
                   !.i = @ + 1]

\* ReliableFallback with the planned walk going on after the failed hop
ReliableFallbackContinue(r, history, tail) ==
    ReliableAdvance(r, r.full_path[r.i + 1], history)

\* lines 170-176: the classical tail from u after a failed quantum hop
ReliableFallback(r, history, tail) ==
    IF ~Truthy(tail)
    THEN [r EXCEPT !.pc = "done", !.history = history,
                   !.result = [success |-> FALSE,
                               reason |-> "no_classical_fallback",
                               history |-> history]]
    ELSE IF Len(tail.path) < 2
    THEN ReliableSuccess([r EXCEPT !.tail = tail.path], r.assembled, history)
    ELSE [r EXCEPT !.pc = "tail", !.history = history,
                   !.tail = tail.path, !.j = 1]

\* FallbackFrom with the tail computed from the far end of the failed hop
FallbackFromNext(u, v, src) == v

\* the node the classical tail is computed from: u, the hop's start
FallbackFrom(u, v, src) == u

\* ReliableClassicalHop with a lost hop ending the call unsuccessfully
ReliableClassicalHopAbort(r, v, cres, history) ==
    IF cres.success THEN ReliableAdvance(r, v, history)
    ELSE [r EXCEPT !.pc = "done", !.history = history,
                   !.result = [success |-> FALSE, reason |-> "classical_loss",
                               history |-> history]]

\* what a lost classical hop of the planned path leads to: nothing special
ReliableClassicalHop(r, v, cres, history) == ReliableAdvance(r, v, history)

\* EdgePath with the plan walked so far handed to the simulator
EdgePathFromStart(full_path, i) == SubSeq(full_path, 1, i + 1)

\* line 162: edge_path = [u, v], the i-th link of the plan on its own
EdgePath(full_path, i) == <<full_path[i], full_path[i + 1]>>

\* lines 161-192: one iteration of the walk over the planned path
ReliableWalkHop ==
    /\ rel.pc = "walk"
    /\ LET u == rel.full_path[rel.i]
           v == rel.full_path[rel.i + 1]
           edge_path == EdgePath(rel.full_path, rel.i)
           d == EdgeOf(G, u, v)
       IN IF d.quantum
          THEN \E run \in QuantumRuns(G, QuantumEnter(edge_path)) :
                 LET qres == run.metrics
                     history == Append(rel.history,
                                       HistoryRecord("quantum", qres, edge_path))
                     r == [rel EXCEPT !.swaps = @ + Len(run.swap_draws)]
                 IN IF ~qres.success
                    THEN \E tail \in classical_latency(G, FallbackFrom(u, v, rel.src), rel.dst) :
                            rel' = ReliableFallback(r, history, tail)
                    ELSE rel' = ReliableAdvance(r, v, history)
          ELSE \E cres \in simulate_path_classical(G, edge_path) :
                 rel' = ReliableClassicalHop(rel, v, cres,
                           Append(rel.history,
                                  HistoryRecord("classical", cres, edge_path)))
    /\ UNCHANGED <<G, POLICIES, hy, snd, simVars, optVars, qkdVars, rngVars>>

\* ReliableTailHop with the whole tail, its first node included, appended
\* to the assembled path
ReliableTailHopRepeat ==
    /\ rel.pc = "tail"
    /\ LET x == rel.tail[rel.j]
           y == rel.tail[rel.j + 1]
       IN \E cres \in simulate_path_classical(G, <<x, y>>) :
            LET history == Append(rel.history,
                                  HistoryRecord("classical", cres, <<x, y>>))
            IN rel' = IF rel.j + 1 > Len(rel.tail) - 1
                      THEN ReliableSuccess(rel, rel.assembled \o rel.tail,
                                           history)
                      ELSE [rel EXCEPT !.history = history, !.j = @ + 1]
    /\ UNCHANGED <<G, POLICIES, hy, snd, simVars, optVars, qkdVars, rngVars>>

\* lines 178-187: one iteration of the walk over the classical tail
ReliableTailHop ==
    /\ rel.pc = "tail"
    /\ LET x == rel.tail[rel.j]
           y == rel.tail[rel.j + 1]
       IN \E cres \in simulate_path_classical(G, <<x, y>>) :
            LET history == Append(rel.history,
                                  HistoryRecord("classical", cres, <<x, y>>))
            IN rel' = IF rel.j + 1 > Len(rel.tail) - 1
                      THEN ReliableSuccess(rel, rel.assembled \o Tail(rel.tail),
                                           history)
                      ELSE [rel EXCEPT !.history = history, !.j = @ + 1]
    /\ UNCHANGED <<G, POLICIES, hy, snd, simVars, optVars, qkdVars, rngVars>>

\* ---------------------------------------------------------------------
\* routing.py: send_message()
\* ---------------------------------------------------------------------
\* lines 102-103
SendAfterPlan(s, o) ==
    IF o.kind = "raise"
    THEN [s EXCEPT !.pc = "raised", !.exc = o.exc]
    ELSE IF ~Truthy(o)
    THEN [s EXCEPT !.pc = "done",
                   !.result = [success |-> FALSE, reason |-> "no_path",
                               policy |-> s.policy]]
    ELSE [s EXCEPT !.pc = "quantum", !.path = o.path]

\* lines 100-101
send_message ==
    /\ RoutingIdle
    /\ \E src \in Sources, dst \in Targets, policy \in PolicyNames :
          LET s == [SndIdle EXCEPT !.policy = policy, !.src = src, !.dst = dst]
              path_fn == get_policy(POLICIES, policy)
          IN IF path_fn.kind = "raise"
             THEN snd' = [s EXCEPT !.pc = "raised", !.exc = path_fn.exc] /\ hy' = hy
             ELSE LET fn == path_fn.path[1]
                      t == [s EXCEPT !.path_fn = fn]
                  IN IF fn = "hybrid"
                     THEN /\ snd' = [t EXCEPT !.pc = "plan"]
                          /\ hy' = HybridEnter(src, dst, "send_message")
                     ELSE /\ \E o \in PolicyCall(fn, G, src, dst) :
                                snd' = SendAfterPlan(t, o)
                          /\ hy' = hy
    /\ UNCHANGED <<G, POLICIES, rel, simVars, optVars, qkdVars, rngVars>>

SendPlanned ==
    /\ snd.pc = "plan"
    /\ hy.pc \in {"exit", "raised"}
    /\ snd' = SendAfterPlan(snd, HybridResult(hy))
    /\ hy' = HybridIdle
    /\ UNCHANGED <<G, POLICIES, rel, simVars, optVars, qkdVars, rngVars>>

\* SendSimulateQuantum with the classical simulation run after a quantum
\* success as well
SendSimulateBoth ==
    /\ snd.pc = "quantum"
    /\ \E qres \in simulate_path_quantum(G, snd.path) :
          snd' = [snd EXCEPT !.sims = Append(@, qres), !.pc = "classical"]
    /\ UNCHANGED <<G, POLICIES, hy, rel, simVars, optVars, qkdVars, rngVars>>

\* lines 105-106
SendSimulateQuantum ==
    /\ snd.pc = "quantum"
    /\ \E qres \in simulate_path_quantum(G, snd.path) :
          LET s == [snd EXCEPT !.sims = Append(@, qres)]
          IN snd' = IF qres.success
                    THEN [s EXCEPT !.pc = "done",
                                   !.result = [success |-> TRUE, mode |-> "quantum",
                                               path |-> snd.path]]
                    ELSE [s EXCEPT !.pc = "classical"]
    /\ UNCHANGED <<G, POLICIES, hy, rel, simVars, optVars, qkdVars, rngVars>>

\* lines 108-109
SendSimulateClassical ==
    /\ snd.pc = "classical"
    /\ \E cres \in simulate_path_classical(G, snd.path) :
          snd' = [snd EXCEPT !.sims = Append(@, cres), !.pc = "done",
                             !.result = [success |-> cres.success,
                                         mode |-> "classical",
                                         path |-> snd.path]]
    /\ UNCHANGED <<G, POLICIES, hy, rel, simVars, optVars, qkdVars, rngVars>>

InitRouting ==
    /\ G \in Graphs
    /\ POLICIES = BuiltinPolicies
    /\ hy = HybridIdle
    /\ rel = RelIdle
    /\ snd = SndIdle
    /\ qsim = SimIdle
    /\ csim = SimIdle
    /\ env = EnvIdle
    /\ hc = HcIdle
    /\ bb = BB84Idle
    /\ rng = RngIdle

NextRouting ==
    \/ register
    \/ HybridStep
    \/ send_message_reliable
    \/ ReliablePlanned
    \/ ReliableWalkHop
    \/ ReliableTailHop
    \/ send_message
    \/ SendPlanned
    \/ SendSimulateQuantum
    \/ SendSimulateClassical

SpecRouting == InitRouting /\ [][NextRouting]_vars

\* ---------------------------------------------------------------------
\* simulator.py: the path simulators called on their own, one loop
\* iteration per step
\* ---------------------------------------------------------------------
\* the node sequences of g whose consecutive nodes are joined by an edge
Paths(g) ==
    {p \in UNION {[1..n -> Nodes] : n \in 1..MaxPathLen} :
        p[1] \in Sources /\ IsPathIn(DOMAIN g.edge, p)}

SimQuantumCall ==
    /\ qsim.pc = "idle" /\ csim.pc = "idle"
    /\ \E path \in Paths(G) :
          LET st == QuantumEnter(path)
          IN qsim' = [pc |-> IF st.returned THEN "done" ELSE "run", st |-> st]
    /\ UNCHANGED <<G, routingVars, csim, optVars, qkdVars, rngVars>>

SimQuantumStep ==
    /\ qsim.pc = "run"
    /\ \E d \in QuantumDraws(G, qsim.st) :
          LET st == QuantumIter(G, qsim.st, d[1], d[2])
          IN qsim' = [pc |-> IF st.returned THEN "done" ELSE "run", st |-> st]
    /\ UNCHANGED <<G, routingVars, csim, optVars, qkdVars, rngVars>>

SimClassicalCall ==
    /\ qsim.pc = "idle" /\ csim.pc = "idle"
    /\ \E path \in Paths(G) :
          LET st == ClassicalEnter(path)
          IN csim' = [pc |-> IF st.returned THEN "done" ELSE "run", st |-> st]
    /\ UNCHANGED <<G, routingVars, qsim, optVars, qkdVars, rngVars>>

SimClassicalStep ==
    /\ csim.pc = "run"
    /\ \E h \in simulate_classical_hop(
                   EdgeOf(G, csim.st.path[csim.st.i], csim.st.path[csim.st.i + 1])) :
          LET st == ClassicalIter(G, csim.st, h)
          IN csim' = [pc |-> IF st.returned THEN "done" ELSE "run", st |-> st]
    /\ UNCHANGED <<G, routingVars, qsim, optVars, qkdVars, rngVars>>

InitSim == InitRouting

NextSim ==
    \/ SimQuantumCall
    \/ SimQuantumStep
    \/ SimClassicalCall
    \/ SimClassicalStep

SpecSim == InitSim /\ [][NextSim]_vars

\* ---------------------------------------------------------------------
\* Properties of simulate_path_quantum
\* ---------------------------------------------------------------------
AllTrue(s) == \A k \in DOMAIN s : s[k]

\* number of edges of the path being simulated
QEdgeCount == Len(qsim.st.path) - 1

RECURSIVE SumDist(_, _, _)
\* total distance of the first k edges of path
SumDist(g, path, k) ==
    IF k < 1 THEN 0
    ELSE SumDist(g, path, k - 1) + EdgeOf(g, path[k], path[k + 1]).distance_km

\* C5: simulate_path_quantum returns success=true exactly when every edge
\* of the path got a hop draw that succeeded and every intermediate node
\* got a swap draw that succeeded; each edge and each node is drawn at most
\* once, and a failed draw is the last draw of the call (no retry).
C5_QuantumSuccessIsAndChain ==
    qsim.pc \in {"run", "done"} =>
        LET st == qsim.st
            hd == st.hop_draws
            sd == st.swap_draws
        IN /\ Len(hd) <= QEdgeCount
           /\ Len(sd) <= Len(hd)
           /\ \A k \in 1..(Len(hd) - 1) : hd[k]
           /\ \A k \in 1..(Len(sd) - 1) : sd[k]
           /\ (~AllTrue(hd) \/ ~AllTrue(sd)) => (st.returned /\ ~st.metrics.success)
           /\ st.returned =>
                (st.metrics.success <=>
                    /\ Len(hd) = QEdgeCount /\ AllTrue(hd)
                    /\ Len(sd) = (IF QEdgeCount > 0 THEN QEdgeCount - 1 ELSE 0)
                    /\ AllTrue(sd))

\* a path of three edges succeeded after two swaps
C5_Witness ==
    /\ qsim.pc = "done"
    /\ qsim.st.metrics.success
    /\ QEdgeCount = 3
    /\ Len(qsim.st.swap_draws) = 2

\* the call ended on a failed hop draw, hop number Len(hop_draws), with
\* edges of the path left over
QFailedEarlyAtHop ==
    /\ qsim.pc = "done"
    /\ ~qsim.st.metrics.success
    /\ Len(qsim.st.hop_draws) >= 1
    /\ ~qsim.st.hop_draws[Len(qsim.st.hop_draws)]
    /\ QEdgeCount > Len(qsim.st.hop_draws)

\* C6 (as claimed): when simulate_path_quantum fails at hop i of a path
\* with more than i edges, the hops field equals i.
C6_HopsCountsAttempted ==
    QFailedEarlyAtHop => qsim.st.metrics.hops = Len(qsim.st.hop_draws)

\* C6 (amended): when simulate_path_quantum fails at hop i of a path with
\* more than i edges, the hops field is len(path)-1, the planned hop count,
\* while total_distance_km is the distance of the first i edges only.
C6_HopsIsPlannedCount ==
    QFailedEarlyAtHop =>
        /\ qsim.st.metrics.hops = QEdgeCount
        /\ qsim.st.metrics.total_distance_km =
              SumDist(G, qsim.st.path, Len(qsim.st.hop_draws))

\* hop 2 of a three-edge path failed
C6_Witness ==
    /\ QFailedEarlyAtHop
    /\ Len(qsim.st.hop_draws) = 2
    /\ QEdgeCount = 3

\* C17: when simulate_path_quantum fails, total_distance_km is the distance
\* of the edges attempted: up to and including the hop whose draw failed,
\* or up to and including the hop before the swap whose draw failed; the
\* loop stopped there, no later edge got a draw or added its distance.
C17_FailureDistanceUpToFailure ==
    (qsim.pc = "done" /\ ~qsim.st.metrics.success) =>
        LET st == qsim.st
            n == Len(st.hop_draws)
        IN /\ n >= 1
           /\ n <= QEdgeCount
           /\ st.i = n
           /\ st.metrics.total_distance_km = SumDist(G, st.path, n)
           /\ \/ ~st.hop_draws[n] /\ Len(st.swap_draws) = n - 1
              \/ /\ st.hop_draws[n]
                 /\ Len(st.swap_draws) = n
                 /\ ~st.swap_draws[n]
                 /\ n < QEdgeCount

\* the swap after the first hop of a three-edge path failed, with two
\* edges of nonzero length left
C17_Witness ==
    /\ qsim.pc = "done"
    /\ ~qsim.st.metrics.success
    /\ QEdgeCount = 3
    /\ qsim.st.hop_draws = <<TRUE>>
    /\ qsim.st.swap_draws = <<FALSE>>
    /\ qsim.st.metrics.total_distance_km = 1
    /\ SumDist(G, qsim.st.path, 3) = 3

\* C18: on a path of two or more edges simulate_path_quantum returns
\* success=true only if every intermediate node can store entanglement;
\* the swap drawn at a node that cannot store entanglement fails whatever
\* the random draw, and ends the call.
C18_SuccessNeedsStoringNodes ==
    qsim.pc \in {"run", "done"} =>
        LET st == qsim.st
        IN /\ \A k \in 1..Len(st.swap_draws) :
                 ~_node_can_swap(G, st.path[k + 1]) =>
                     /\ ~st.swap_draws[k]
                     /\ st.returned /\ ~st.metrics.success
           /\ (st.returned /\ st.metrics.success /\ QEdgeCount >= 2) =>
                 \A k \in 2..(Len(st.path) - 1) : _node_can_swap(G, st.path[k])

\* after a successful swap at a storing node, the swap at a node that
\* cannot store entanglement failed
C18_Witness ==
    /\ qsim.pc = "done"
    /\ QEdgeCount = 3
    /\ Len(qsim.st.swap_draws) = 2
    /\ qsim.st.swap_draws[1]
    /\ _node_can_swap(G, qsim.st.path[2])
    /\ ~_node_can_swap(G, qsim.st.path[3])
    /\ ~qsim.st.metrics.success

\* ---------------------------------------------------------------------
\* Properties of simulate_path_classical
\* ---------------------------------------------------------------------
\* number of edges of the path being simulated
CEdgeCount == Len(csim.st.path) - 1

\* the iterations whose hop was lost
LostDraws == {k \in DOMAIN csim.st.hop_draws : ~csim.st.hop_draws[k]}

\* the first of them
FirstLost == CHOOSE k \in LostDraws : \A m \in LostDraws : k <= m

\* C15: simulate_path_classical draws every edge of the path whether or
\* not a hop was lost; it reports hops = len(path)-1 and total_distance_km
\* equal to the sum of the distances of all edges of the path.
C15_ClassicalWalksEveryEdge ==
    /\ csim.pc \in {"run", "done"} =>
          /\ csim.st.metrics.hops = CEdgeCount
          /\ csim.st.metrics.total_distance_km =
                SumDist(G, csim.st.path, Len(csim.st.hop_draws))
          /\ csim.st.returned <=> Len(csim.st.hop_draws) = CEdgeCount
    /\ csim.pc = "done" =>
          /\ csim.st.returned
          /\ csim.st.metrics.total_distance_km =
                SumDist(G, csim.st.path, CEdgeCount)

\* the first hop of a three-edge path was lost and the whole length of
\* the path is reported
C15_Witness ==
    /\ csim.pc = "done"
    /\ CEdgeCount = 3
    /\ ~csim.st.hop_draws[1]
    /\ ~csim.st.metrics.success
    /\ csim.st.metrics.hops = 3
    /\ csim.st.metrics.total_distance_km = 3

\* C16: in simulate_path_classical success is true until the first lost
\* hop and false from then on; lost_hop is None until then and holds the
\* endpoints of the first lost hop from then on, later losses leaving it
\* as it is; so success=true exactly when lost_hop is None.
C16_FirstLossSticks ==
    /\ [](csim.pc \in {"run", "done"} =>
            LET m == csim.st.metrics
            IN /\ m.success <=> LostDraws = {}
               /\ m.success <=> m.lost_hop = <<>>
               /\ LostDraws # {} =>
                     m.lost_hop = <<csim.st.path[FirstLost],
                                    csim.st.path[FirstLost + 1]>>)
    /\ [][(csim.pc = "run" /\ ~csim.st.metrics.success) =>
            /\ ~csim'.st.metrics.success
            /\ csim'.st.metrics.lost_hop = csim.st.metrics.lost_hop]_vars

\* the second and the third hop of a path were lost, at different links
C16_Witness ==
    /\ csim.pc = "done"
    /\ csim.st.hop_draws = <<TRUE, FALSE, FALSE>>
    /\ csim.st.metrics.lost_hop = <<csim.st.path[2], csim.st.path[3]>>
    /\ <<csim.st.path[3], csim.st.path[4]>> # csim.st.metrics.lost_hop

\* ---------------------------------------------------------------------
\* Properties of send_message_reliable
\* ---------------------------------------------------------------------
\* record k of the history is a quantum hop that failed
FailedQuantum(h, k) == h[k].mode = "quantum_path" /\ ~h[k].success
\* record k of the history is a classical hop that was lost
LostClassical(h, k) == h[k].mode = "classical_path" /\ ~h[k].success

FailedQuantumAt(h) == {k \in DOMAIN h : FailedQuantum(h, k)}

\* C1: in every history of send_message_reliable, a failed quantum record
\* is the record of the planned hop the walk stopped at (no later planned
\* hop is simulated), every record after it is a classical record of the
\* fallback tail, in tail order, ending at the destination unless the call
\* failed with no_classical_fallback; at most one quantum record failed.
C1_FallbackAfterFailedQuantum ==
    LET h == rel.history
    IN /\ Cardinality(FailedQuantumAt(h)) <= 1
       /\ \A k \in FailedQuantumAt(h) :
            /\ rel.pc \in {"tail", "done"}
            /\ rel.i = k
            /\ h[k].path = <<rel.full_path[k], rel.full_path[k + 1]>>
            /\ \A m \in (k + 1)..Len(h) :
                  /\ h[m].mode = "classical_path"
                  /\ h[m].path = <<rel.tail[m - k], rel.tail[m - k + 1]>>
            /\ rel.pc = "done" =>
                  \/ /\ ~rel.result.success
                     /\ rel.result.reason = "no_classical_fallback"
                     /\ Len(h) = k
                  \/ /\ rel.result.success
                     /\ Len(h) = k + Len(rel.tail) - 1
                     /\ rel.tail[Len(rel.tail)] = rel.dst

\* the second planned hop failed and a two-hop tail was walked
C1_Witness ==
    /\ rel.pc = "done"
    /\ rel.result.success
    /\ Len(rel.full_path) >= 3
    /\ FailedQuantumAt(rel.history) = {2}
    /\ Len(rel.history) = 4

\* C2: when the quantum hop (u,v) of the plan fails and a path from u to
\* dst exists, the call returns success=true with the planned prefix up to
\* u followed by a classical_latency path from u to dst, and the history
\* holds one classical record per hop of that tail, in order, right after
\* the failed quantum record.
C2_PathIsPrefixPlusTailFromU ==
    \A k \in FailedQuantumAt(rel.history) :
        (rel.pc = "done" /\ has_path(DOMAIN G.edge, rel.full_path[k], rel.dst)) =>
            /\ rel.result.success
            /\ \E t \in classical_latency(G, rel.full_path[k], rel.dst) :
                 /\ t.kind = "path"
                 /\ rel.result.path = SubSeq(rel.full_path, 1, k) \o Tail(t.path)
                 /\ Len(rel.result.history) = k + Len(t.path) - 1
                 /\ \A m \in 1..(Len(t.path) - 1) :
                       /\ rel.result.history[k + m].mode = "classical_path"
                       /\ rel.result.history[k + m].path = <<t.path[m], t.path[m + 1]>>

\* the second planned hop failed and the tail leaves the planned path
C2_Witness ==
    /\ rel.pc = "done"
    /\ rel.result.success
    /\ FailedQuantumAt(rel.history) = {2}
    /\ Len(rel.tail) = 3
    /\ rel.tail[2] # rel.full_path[3]

\* C3 (as claimed): for a registered policy name send_message_reliable
\* calls the function registered under that name, never another one, and
\* walks a path that function returns.
C3_RegisteredPolicyExecuted ==
    (rel.pc # "idle" /\ rel.policy \in DOMAIN POLICIES) =>
        /\ rel.path_fn = POLICIES[rel.policy]
        /\ (/\ rel.pc \in {"walk", "tail", "done"}
            /\ Len(rel.full_path) > 0
            /\ POLICIES[rel.policy] # "hybrid") =>
               Return(rel.full_path) \in
                   PolicyCall(POLICIES[rel.policy], G, rel.src, rel.dst)

\* no path joins src to dst in the graph the policy searches
NoPathUnder(policy, g, src, dst) ==
    /\ src # dst
    /\ IF policy = "quantum_only"
       THEN ~has_path(QuantumEdges(g), src, dst)
       ELSE ~has_path(DOMAIN g.edge, src, dst)

\* C4 (as claimed): for a built-in policy under which no path joins src to
\* dst, send_message returns success=false with reason no_path and runs no
\* simulation.
C4_UnreachableIsNoPath ==
    (/\ snd.pc \in {"quantum", "classical", "done"}
     /\ snd.policy \in DOMAIN BuiltinPolicies
     /\ NoPathUnder(snd.policy, G, snd.src, snd.dst)) =>
        /\ snd.pc = "done"
        /\ ~snd.result.success
        /\ snd.result.reason = "no_path"
        /\ snd.sims = <<>>

\* a classical record was appended by the step and its hop was lost
LostClassicalAppended ==
    /\ Len(rel'.history) = Len(rel.history) + 1
    /\ LostClassical(rel'.history, Len(rel'.history))

\* C10: send_message_reliable returns success=false only with reason
\* no_path (nothing simulated) or no_classical_fallback (right after a
\* failed quantum hop); a step that records a lost classical hop moves on
\* to the next hop of the same walk or returns success=true, and changes
\* neither the plan nor the tail.
C10_ClassicalLossTolerated ==
    [][/\ (rel'.pc = "done" /\ ~rel'.result.success) =>
            \/ rel'.result.reason = "no_path" /\ rel'.history = <<>>
            \/ /\ rel'.result.reason = "no_classical_fallback"
               /\ FailedQuantum(rel'.history, Len(rel'.history))
       /\ LostClassicalAppended =>
            /\ rel'.full_path = rel.full_path
            /\ rel'.tail = rel.tail
            /\ \/ rel'.pc = "done" /\ rel'.result.success
               \/ rel.pc = "walk" /\ rel'.pc = "walk" /\ rel'.i = rel.i + 1
               \/ rel.pc = "tail" /\ rel'.pc = "tail" /\ rel'.j = rel.j + 1
            /\ rel.pc = "walk" =>
                  rel'.assembled = Append(rel.assembled, rel.full_path[rel.i + 1])
      ]_vars

\* a planned classical hop and a tail hop were both lost, the call succeeded
C10_Witness ==
    /\ rel.pc = "done"
    /\ rel.result.success
    /\ \E k \in FailedQuantumAt(rel.history) :
          /\ \E m \in 1..(k - 1) : LostClassical(rel.history, m)
          /\ \E m \in (k + 1)..Len(rel.history) : LostClassical(rel.history, m)

\* the call returned a path
ReliableReturnedPath == rel.pc = "done" /\ "path" \in DOMAIN rel.result

\* C11: when no quantum hop of the planned path fails, send_message_reliable
\* returns success=true, its path is the policy's plan, and the history
\* holds one record per planned edge, in path order, each of the kind of
\* its link.
C11_NoFailureWalksThePlan ==
    (/\ rel.pc = "done"
     /\ Len(rel.full_path) >= 2
     /\ FailedQuantumAt(rel.history) = {}) =>
        /\ rel.result.success
        /\ rel.result.mode = init_mode(rel.policy)
        /\ rel.result.path = rel.full_path
        /\ Len(rel.result.history) = Len(rel.full_path) - 1
        /\ \A k \in 1..(Len(rel.full_path) - 1) :
              LET u == rel.full_path[k]
                  v == rel.full_path[k + 1]
              IN /\ rel.result.history[k].path = <<u, v>>
                 /\ rel.result.history[k].hops = 1
                 /\ rel.result.history[k].mode =
                       IF EdgeOf(G, u, v).quantum THEN "quantum_path"
                       ELSE "classical_path"

\* a plan of a quantum hop followed by a classical hop was walked to its
\* end, the classical hop being lost
C11_Witness ==
    /\ rel.pc = "done"
    /\ rel.result.success
    /\ FailedQuantumAt(rel.history) = {}
    /\ Len(rel.full_path) = 3
    /\ rel.history[1].mode = "quantum_path"
    /\ LostClassical(rel.history, 2)

\* C12: in every result of send_message_reliable that carries a path, the
\* history has the number of edges of the returned path when no quantum
\* hop failed and one record more when one failed and the classical tail
\* was walked; it is never shorter than the number of edges.
C12_HistoryCoversReturnedPath ==
    ReliableReturnedPath =>
        LET edges == Len(rel.result.path) - 1
            records == Len(rel.result.history)
        IN /\ records >= edges
           /\ FailedQuantumAt(rel.result.history) = {} => records = edges
           /\ FailedQuantumAt(rel.result.history) # {} => records = edges + 1

\* the first planned hop failed and a tail of two hops was walked
C12_Witness ==
    /\ ReliableReturnedPath
    /\ FailedQuantumAt(rel.result.history) = {1}
    /\ Len(rel.tail) = 3
    /\ Len(rel.result.history) = 3
    /\ Len(rel.result.path) = 3

\* ---------------------------------------------------------------------
\* Properties of send_message
\* ---------------------------------------------------------------------
\* C13: send_message simulates the whole path the policy returned as
\* quantum first; mode=quantum is reported only with success=true and
\* without any classical simulation; the classical simulation of the same
\* whole path runs only after the quantum one failed, and then the result
\* is mode=classical with that simulation's success; the returned path is
\* the policy's path.
C13_WholePathQuantumThenClassical ==
    /\ snd.pc \in {"classical", "done"} /\ snd.sims # <<>> =>
          /\ snd.sims[1].mode = "quantum_path"
          /\ snd.sims[1].hops = Len(snd.path) - 1
          /\ Len(snd.sims) >= 2 =>
                /\ ~snd.sims[1].success
                /\ snd.sims[2].mode = "classical_path"
                /\ snd.sims[2].hops = Len(snd.path) - 1
                /\ snd.sims[2].total_distance_km =
                      SumDist(G, snd.path, Len(snd.path) - 1)
    /\ snd.pc = "classical" => Len(snd.sims) = 1 /\ ~snd.sims[1].success
    /\ (snd.pc = "done" /\ "mode" \in DOMAIN snd.result) =>
          /\ snd.result.path = snd.path
          /\ snd.path_fn # "hybrid" =>
                Return(snd.result.path) \in PolicyCall(snd.path_fn, G, snd.src, snd.dst)
          /\ snd.result.mode \in {"quantum", "classical"}
          /\ snd.result.mode = "quantum" =>
                /\ snd.result.success
                /\ Len(snd.sims) = 1
                /\ snd.sims[1].success
          /\ snd.result.mode = "classical" =>
                /\ Len(snd.sims) = 2
                /\ snd.result.success = snd.sims[2].success

\* a two-hop path failed as quantum and was lost as classical
C13_Witness ==
    /\ snd.pc = "done"
    /\ "mode" \in DOMAIN snd.result
    /\ snd.result.mode = "classical"
    /\ ~snd.result.success
    /\ Len(snd.path) = 3

\* ---------------------------------------------------------------------
\* Errors of the policy call
\* ---------------------------------------------------------------------
\* C14 (as claimed): no call of send_message or send_message_reliable ends
\* with an exception of the policy lookup or of the policy function; such
\* a failure is returned as the no_path result.
C14_PolicyFailureIsNoPath ==
    /\ snd.pc # "raised"
    /\ rel.pc # "raised"
    /\ (snd.pc = "done" /\ snd.dst \notin Nodes) =>
          ~snd.result.success /\ snd.result.reason = "no_path"
    /\ (rel.pc = "done" /\ rel.dst \notin Nodes) =>
          ~rel.result.success /\ rel.result.reason = "no_path"

\* ---------------------------------------------------------------------
\* repeater_env.py: RepeaterEnv
\* ---------------------------------------------------------------------
_clone_graph(g, repeaters) ==
    [g EXCEPT !.node = [n \in Nodes |->
        IF repeaters[n] = 1
        THEN [quantum |-> TRUE, can_store_entanglement |-> TRUE]
        ELSE g.node[n]]]

\* BaseAfterClone with the upgrades written to G_orig itself (no copy)
BaseUpgradedInPlace(g, repeaters) == _clone_graph(g, repeaters)

\* line 54: G_orig.copy() gives the clone node attribute dictionaries of
\* its own, so G_orig is after _clone_graph what it was before
BaseAfterClone(g, repeaters) == g

\* rewards are kept as integers: the float r is held as r * PenaltyDen * trials
\* penalty = 0.01 per repeater
PenaltyDen == 100
\* Reward with the repeaters costing nothing
RewardNoPenalty(successes, trials, mask) == PenaltyDen * successes
\* prob_success - penalty
Reward(successes, trials, mask) == PenaltyDen * successes - trials * MaskSum(mask)
\* return -1.0
RewardDisconnected(trials) == -(PenaltyDen * trials)
\* reward = -0.5
RewardInvalid(trials) == -((PenaltyDen * trials) \div 2)

\* lines 69-72: the loop of `trials` simulations, as the numbers of
\* simulations run and of successes it can end with
RECURSIVE RunTrials(_, _, _)
RunTrials(g, path, trials) ==
    IF trials < 1 THEN {[sims |-> 0, successes |-> 0]}
    ELSE {[sims |-> r.sims + 1,
           successes |-> r.successes + (IF metrics.success THEN 1 ELSE 0)] :
             r \in RunTrials(g, path, trials - 1),
             metrics \in simulate_path_quantum(g, path)}

\* a call of _compute_reward that ran nothing
NoRun ==
    [clone |-> [node |-> <<>>, edge |-> <<>>], path |-> <<>>, sims |-> 0,
     successes |-> 0, reward |-> 0]

\* the ways a call of _compute_reward can go: the path it found, the
\* simulations it ran and the value it returns
RewardRuns(g, e) ==
    LET clone == _clone_graph(g, e.repeaters)
    IN UNION {IF o.kind = "raise"
              THEN {[NoRun EXCEPT !.clone = clone,
                                  !.reward = RewardDisconnected(e.trials)]}
              ELSE {[clone |-> clone, path |-> o.path, sims |-> r.sims,
                     successes |-> r.successes,
                     reward |-> Reward(r.successes, e.trials, e.repeaters)] :
                       r \in RunTrials(clone, o.path, e.trials)} :
              o \in shortest_path(clone, Nodes, DOMAIN clone.edge, "none",
                                  e.src, e.dst)}

\* the values _compute_reward can return
_compute_reward(g, e) == {run.reward : run \in RewardRuns(g, e)}

\* the environment is driven through its Gym API before hill_climb is run
OptFree == hc.pc = "idle"

\* what the last finished call of reset() or step() returned
NoReturn ==
    [op |-> "none", observation |-> Zeros, reward |-> 0,
     computed |-> FALSE, run |-> NoRun]

\* reset(): a fresh all-zero mask
EnvReset ==
    /\ OptFree
    /\ env' = [env EXCEPT !.repeaters = Zeros,
                          !.ret = [NoReturn EXCEPT !.op = "reset"]]
    /\ UNCHANGED <<G, hc, routingVars, simVars, qkdVars, rngVars>>

\* step(action): toggle in place, undo when over budget
EnvStep ==
    /\ OptFree
    /\ \E action \in Nodes :
          LET toggled == Toggle(env.repeaters, action)
              undone == Toggle(toggled, action)
          IN IF MaskSum(toggled) > env.max_repeaters
             THEN /\ env' = [env EXCEPT !.repeaters = undone,
                                        !.ret = [NoReturn EXCEPT
                                                   !.op = "step",
                                                   !.observation = undone,
                                                   !.reward = RewardInvalid(env.trials)]]
                  /\ G' = G
             ELSE /\ \E run \in RewardRuns(G, [env EXCEPT !.repeaters = toggled]) :
                        env' = [env EXCEPT !.repeaters = toggled,
                                           !.ret = [op |-> "step",
                                                    observation |-> toggled,
                                                    reward |-> run.reward,
                                                    computed |-> TRUE,
                                                    run |-> run]]
                  /\ G' = BaseAfterClone(G, toggled)
    /\ UNCHANGED <<hc, routingVars, simVars, qkdVars, rngVars>>

\* ---------------------------------------------------------------------
\* repeater_agent.py: hill_climb
\* ---------------------------------------------------------------------
\* OverBudget with the budget test off by one
OverBudgetLoose(candidate, max_repeaters) == MaskSum(candidate) > max_repeaters + 1

\* line 23: candidate.sum() > env.max_repeaters
OverBudget(candidate, max_repeaters) == MaskSum(candidate) > max_repeaters

\* Improves with an equal reward accepted as well
ImprovesOrTies(reward, best_reward) == reward >= best_reward

\* line 26: reward > best_reward
Improves(reward, best_reward) == reward > best_reward

\* lines 14-16
hill_climb ==
    /\ hc.pc = "idle"
    /\ \E iterations \in 0..MaxIter :
          LET e == [env EXCEPT !.repeaters = Zeros, !.ret = NoReturn]
          IN /\ env' = e
             /\ \E best_reward \in _compute_reward(G, e) :
                   hc' = [HcIdle EXCEPT !.pc = "loop", !.iterations = iterations,
                                        !.best_reward = best_reward,
                                        !.best_mask = Zeros, !.calls = 1]
             /\ G' = BaseAfterClone(G, e.repeaters)
    /\ UNCHANGED <<routingVars, simVars, qkdVars, rngVars>>

\* lines 19-22: the candidate is installed in the environment
HillClimbMutate ==
    /\ hc.pc = "loop"
    /\ hc.it < hc.iterations
    /\ \E flip \in Nodes :
          LET candidate == Toggle(hc.best_mask, flip)
          IN /\ hc' = [hc EXCEPT !.pc = "check", !.candidate = candidate]
             /\ env' = [env EXCEPT !.repeaters = candidate]
    /\ UNCHANGED <<G, routingVars, simVars, qkdVars, rngVars>>

\* lines 23-28
HillClimbEvaluate ==
    /\ hc.pc = "check"
    /\ IF OverBudget(hc.candidate, env.max_repeaters)
       THEN /\ hc' = [hc EXCEPT !.pc = "loop", !.it = @ + 1,
                                !.last = [computed |-> FALSE, reward |-> 0]]
            /\ G' = G
       ELSE /\ \E reward \in _compute_reward(G, env) :
                  LET h == [hc EXCEPT !.pc = "loop", !.it = @ + 1,
                                      !.calls = @ + 1,
                                      !.last = [computed |-> TRUE, reward |-> reward]]
                  IN hc' = IF Improves(reward, hc.best_reward)
                           THEN [h EXCEPT !.best_reward = reward,
                                          !.best_mask = hc.candidate]
                           ELSE h
            /\ G' = BaseAfterClone(G, env.repeaters)
    /\ UNCHANGED <<env, routingVars, simVars, qkdVars, rngVars>>

\* lines 30-32
HillClimbReturn ==
    /\ hc.pc = "loop"
    /\ hc.it = hc.iterations
    /\ env' = [env EXCEPT !.repeaters = hc.best_mask]
    /\ hc' = [hc EXCEPT !.pc = "done",
                        !.result = [mask |-> hc.best_mask,
                                    reward |-> hc.best_reward]]
    /\ UNCHANGED <<G, routingVars, simVars, qkdVars, rngVars>>

\* the graphs an environment is built on: every link MaxDist long (a reward
\* reads distances only through the hop draws) and every quantum node able
\* to store entanglement
OptGraphs ==
    {g \in Graphs :
        /\ \A e \in DOMAIN g.edge : g.edge[e].distance_km = MaxDist
        /\ \A n \in Nodes : g.node[n].quantum = g.node[n].can_store_entanglement}

\* the state after RepeaterEnv(G, src, dst, max_repeaters, trials): the
\* constructor redraws dst until it differs from src and calls reset()
InitOpt ==
    /\ G \in OptGraphs
    /\ POLICIES = BuiltinPolicies
    /\ hy = HybridIdle
    /\ rel = RelIdle
    /\ snd = SndIdle
    /\ qsim = SimIdle
    /\ csim = SimIdle
    /\ \E src \in Sources, dst \in Nodes, max_repeaters \in 0..MaxBudget :
          /\ dst # src
          /\ env = [pc |-> "ready", src |-> src, dst |-> dst,
                    max_repeaters |-> max_repeaters, trials |-> Trials,
                    repeaters |-> Zeros, ret |-> NoReturn]
    /\ hc = HcIdle
    /\ bb = BB84Idle
    /\ rng = RngIdle

NextOpt ==
    \/ EnvReset
    \/ EnvStep
    \/ hill_climb
    \/ HillClimbMutate
    \/ HillClimbEvaluate
    \/ HillClimbReturn

SpecOpt == InitOpt /\ [][NextOpt]_vars

\* ---------------------------------------------------------------------
\* Properties of RepeaterEnv and hill_climb
\* ---------------------------------------------------------------------
\* C7 (as claimed): the environment's mask has at most max_repeaters nodes
\* set after every RepeaterEnv.step and in every state hill_climb reaches,
\* here read at its weakest: once an iteration has run its budget test, a
\* candidate over the budget is no longer installed in the environment.
C7_EnvMaskWithinBudget ==
    hc.pc # "check" => MaskSum(env.repeaters) <= env.max_repeaters

\* C8: for max_repeaters >= 0 the best mask hill_climb holds after each
\* iteration, and the mask it returns, has at most max_repeaters nodes set;
\* an iteration whose candidate is larger computes no reward.
C8_BestMaskWithinBudget ==
    /\ hc.pc # "idle" => MaskSum(hc.best_mask) <= env.max_repeaters
    /\ hc.pc = "done" => MaskSum(hc.result.mask) <= env.max_repeaters
    /\ (hc.pc = "loop" /\ hc.it > 0 /\ MaskSum(hc.candidate) > env.max_repeaters) =>
          ~hc.last.computed
    /\ hc.pc \in {"loop", "done"} => hc.calls <= 1 + hc.it

\* hill_climb returned a full-budget mask after discarding a larger candidate
C8_Witness ==
    /\ hc.pc = "done"
    /\ env.max_repeaters = 1
    /\ MaskSum(hc.result.mask) = 1
    /\ MaskSum(hc.candidate) = 2
    /\ ~hc.last.computed
    /\ hc.calls = hc.it

\* the step is an iteration of hill_climb that computed its candidate's reward
Evaluated == hc.pc = "check" /\ hc'.pc = "loop" /\ hc'.last.computed

\* C9: over the steps of hill_climb the best reward never decreases; the
\* best mask is replaced, by the candidate, exactly in an iteration whose
\* computed reward is strictly greater than the best reward, which becomes
\* that reward; in every other step best mask and best reward stay as they
\* are.
C9_BestChangesOnlyOnImprovement ==
    [][(hc.pc # "idle" /\ hc'.pc # "idle") =>
          /\ hc'.best_reward >= hc.best_reward
          /\ hc'.best_mask # hc.best_mask <=>
                (Evaluated /\ hc'.last.reward > hc.best_reward)
          /\ IF Evaluated /\ hc'.last.reward > hc.best_reward
             THEN hc'.best_mask = hc.candidate /\ hc'.best_reward = hc'.last.reward
             ELSE hc'.best_mask = hc.best_mask /\ hc'.best_reward = hc.best_reward
      ]_vars

\* hill_climb ended after a candidate that improved and a later one that
\* was evaluated and did not
C9_Witness ==
    /\ hc.pc = "done"
    /\ hc.it = 2
    /\ hc.calls = 3
    /\ MaskSum(hc.result.mask) = 1
    /\ hc.last.computed
    /\ hc.last.reward < hc.best_reward
    /\ hc.candidate # hc.best_mask

\* ---------------------------------------------------------------------
\* Properties of RepeaterEnv._compute_reward
\* ---------------------------------------------------------------------
\* step() returned the value of a _compute_reward call
StepComputedReward == env.pc = "ready" /\ env.ret.op = "step" /\ env.ret.computed

\* C19: _compute_reward returns -1 and simulates nothing when src and dst
\* are disconnected in the upgraded clone; otherwise it runs `trials`
\* quantum simulations along one path of the clone from src to dst of
\* least hop count and returns successes/trials minus 0.01 per masked
\* node (both sides scaled by 100 * trials here).
C19_RewardIsRateMinusPenalty ==
    StepComputedReward =>
        LET mask == env.ret.observation
            run == env.ret.run
            clone == [G EXCEPT !.node = [n \in Nodes |->
                         IF mask[n] = 1
                         THEN [quantum |-> TRUE, can_store_entanglement |-> TRUE]
                         ELSE G.node[n]]]
            paths == SimplePaths(DOMAIN G.edge, env.src, env.dst)
        IN IF paths = {}
           THEN /\ env.ret.reward = -(100 * env.trials)
                /\ run.sims = 0
           ELSE /\ run.sims = env.trials
                /\ run.path \in paths
                /\ \A q \in paths : Len(run.path) <= Len(q)
                /\ run.successes \in 0..env.trials
                /\ run.successes > 0 =>
                      \E m \in simulate_path_quantum(clone, run.path) : m.success
                /\ env.ret.reward =
                      100 * run.successes - env.trials * MaskSum(mask)

\* with one repeater placed, one simulation succeeded and another failed
C19_Witness ==
    /\ StepComputedReward
    /\ MaskSum(env.ret.observation) = 1
    /\ env.ret.run.sims = env.trials
    /\ env.ret.run.successes = 1
    /\ env.ret.reward = 100 - env.trials

\* C22: no reset, step, _compute_reward or hill_climb iteration changes
\* the base graph (node attributes, edge set, edge attributes); the clone
\* _compute_reward works on has the base graph's edges and differs from it
\* only in quantum and can_store_entanglement of the masked nodes, both
\* true there.
C22_BaseGraphUntouched ==
    /\ [][G' = G]_vars
    /\ [](StepComputedReward =>
            LET clone == env.ret.run.clone
                mask == env.ret.observation
            IN /\ clone.edge = G.edge
               /\ DOMAIN clone.node = DOMAIN G.node
               /\ \A n \in Nodes :
                     IF mask[n] = 1
                     THEN /\ clone.node[n].quantum
                          /\ clone.node[n].can_store_entanglement
                     ELSE clone.node[n] = G.node[n])

\* a reward was computed with a repeater on a node the base graph keeps
\* classical
C22_Witness ==
    /\ StepComputedReward
    /\ \E n \in Nodes :
          /\ env.ret.observation[n] = 1
          /\ env.ret.run.clone.node[n].quantum
          /\ ~G.node[n].quantum
          /\ ~G.node[n].can_store_entanglement

\* ---------------------------------------------------------------------
\* part6.py: run_bb84, the decoy-state BB84 session
\* ---------------------------------------------------------------------
\* QBER_LIMIT = 0.11, DELTA_Y_LIM = 0.05, SAMPLE_FRAC = 0.02, in percent
QBER_LIMIT == 11
DELTA_Y_LIM == 5
SAMPLE_FRAC == 2

\* p_noise: at most 0, strictly between 0 and 1, at least 1
NoiseLevels == {"zero", "between", "one"}

\* rng.random(n) < p for one position
DrawBelow(p) ==
    CASE p = "zero" -> {FALSE}
      [] p = "one"  -> {TRUE}
      [] OTHER      -> BOOLEAN

\* steps 1-4 for one position: the decoy tag, the detection (with the
\* decoys Eve blocks), whether the bases agree, and whether Bob's bit
\* differs from Alice's where they agree (noise_flip); Bob's bit at a
\* position of differing bases is not read again
Pulses(p_noise, pns) ==
    {[is_decoy |-> is_decoy,
      detection |-> detection /\ ~(pns /\ is_decoy /\ detection /\ drop),
      same |-> same,
      mismatch |-> same /\ noise_flip] :
        is_decoy \in BOOLEAN, detection \in BOOLEAN,
        drop \in IF pns THEN BOOLEAN ELSE {FALSE},
        same \in BOOLEAN, noise_flip \in DrawBelow(p_noise)}

IsSifted(pulse) == pulse.same

\* sift_A / sift_B: the positions of equal bases, in order
Sift(pulses) == SelectSeq(pulses, IsSifted)

\* detection[mask].mean() if mask.any() else 0.0, over the sifted
\* positions with the given decoy tag
Yield(pulses, decoy) ==
    LET sift == Sift(pulses)
        mask == {k \in DOMAIN sift : sift[k].is_decoy = decoy}
    IN IF mask = {} THEN Ratio(0, 1)
       ELSE Ratio(Cardinality({k \in mask : sift[k].detection}),
                  Cardinality(mask))

\* max(1, int(len(sift_A) * SAMPLE_FRAC))
sample_len(n) ==
    IF (n * SAMPLE_FRAC) \div 100 > 1 THEN (n * SAMPLE_FRAC) \div 100 ELSE 1

\* rng.choice(n, size, replace=False): the index sets it can return; none
\* when it raises ValueError (size > n)
choice(n, size) == {idx \in SUBSET (1..n) : Cardinality(idx) = size}

\* (sift_A[idx] != sift_B[idx]).mean()
Qber(pulses, idx) ==
    Ratio(Cardinality({k \in idx : Sift(pulses)[k].mismatch}), Cardinality(idx))

\* ratio > pct / 100
Exceeds(ratio, pct) == ratio.num * 100 > pct * ratio.den

\* abs(y_sig - y_dec)
Gap(y_sig, y_dec) ==
    LET d == y_sig.num * y_dec.den - y_dec.num * y_sig.den
    IN Ratio(IF d < 0 THEN -d ELSE d, y_sig.den * y_dec.den)

\* AbortMessage with the yield test made before the QBER test
AbortMessageYieldFirst(qber, y_sig, y_dec) ==
    IF Exceeds(Gap(y_sig, y_dec), DELTA_Y_LIM) THEN "Abort: decoy-state anomaly"
    ELSE IF Exceeds(qber, QBER_LIMIT) THEN "Abort: QBER too high"
    ELSE ""

\* lines 85-92: the abort message, "" when the session goes on
AbortMessage(qber, y_sig, y_dec) ==
    IF Exceeds(qber, QBER_LIMIT) THEN "Abort: QBER too high"
    ELSE IF Exceeds(Gap(y_sig, y_dec), DELTA_Y_LIM) THEN "Abort: decoy-state anomaly"
    ELSE ""

NoKey == [kind |-> "none", aligned |-> <<>>]

\* _reconcile on the sifted positions outside the sample: one parity fix
\* on Bob's first bit, then the positions still differing are dropped; the
\* digest is held as the sifted positions whose sender bits are hashed
_reconcile(pulses, idx) ==
    LET sift == Sift(pulses)
        keep == {k \in DOMAIN sift : k \notin idx}
        odd == Cardinality({k \in keep : sift[k].mismatch}) % 2 = 1
        first == CHOOSE k \in keep : \A m \in keep : k <= m
        differs(k) == IF odd /\ k = first THEN ~sift[k].mismatch
                      ELSE sift[k].mismatch
        IsAligned(k) == k \in keep /\ ~differs(k)
    IN [kind |-> "sha3_256",
        aligned |-> SelectSeq([k \in DOMAIN sift |-> k], IsAligned)]

\* the returned tuple (success, qber, key_or_msg, y_sig, y_dec)
BB84Result(success, qber, msg, key, y_sig, y_dec) ==
    [success |-> success, qber |-> qber, msg |-> msg, key |-> key,
     yield_signal |-> y_sig, yield_decoy |-> y_dec]

\* run_bb84(n_qubits, p_noise, pns) is called
run_bb84 ==
    /\ bb.pc = "idle"
    /\ \E n_qubits \in 0..MaxQubits, p_noise \in NoiseLevels, pns \in BOOLEAN :
          bb' = [BB84Idle EXCEPT !.pc = "pulses", !.n_qubits = n_qubits,
                                 !.p_noise = p_noise, !.pns = pns]
    /\ UNCHANGED <<G, routingVars, simVars, optVars, rngVars>>

\* lines 52-72, one position of the arrays at a time
BB84Pulse ==
    /\ bb.pc = "pulses"
    /\ Len(bb.pulses) < bb.n_qubits
    /\ \E pulse \in Pulses(bb.p_noise, bb.pns) :
          bb' = [bb EXCEPT !.pulses = Append(@, pulse)]
    /\ UNCHANGED <<G, routingVars, simVars, optVars, rngVars>>

\* lines 75-84: sifting, the two yields and the QBER sample
BB84Sample ==
    /\ bb.pc = "pulses"
    /\ Len(bb.pulses) = bb.n_qubits
    /\ LET n == Len(Sift(bb.pulses))
           sampled == [bb EXCEPT !.y_sig = Yield(bb.pulses, FALSE),
                                 !.y_dec = Yield(bb.pulses, TRUE)]
       IN IF choice(n, sample_len(n)) = {}
          THEN bb' = [sampled EXCEPT !.pc = "raised", !.exc = "ValueError"]
          ELSE \E idx \in choice(n, sample_len(n)) :
                  bb' = [sampled EXCEPT !.pc = "test", !.idx = idx,
                                        !.qber = Qber(bb.pulses, idx)]
    /\ UNCHANGED <<G, routingVars, simVars, optVars, rngVars>>

\* lines 85-97: the two abort tests, then the key
BB84Decide ==
    /\ bb.pc = "test"
    /\ LET msg == AbortMessage(bb.qber, bb.y_sig, bb.y_dec)
       IN bb' = [bb EXCEPT
                   !.pc = "done",
                   !.result =
                      IF msg # ""
                      THEN BB84Result(FALSE, bb.qber, msg, NoKey, bb.y_sig, bb.y_dec)
                      ELSE BB84Result(TRUE, bb.qber, "",
                                      _reconcile(bb.pulses, bb.idx),
                                      bb.y_sig, bb.y_dec)]
    /\ UNCHANGED <<G, routingVars, simVars, optVars, rngVars>>

\* run_bb84 takes no graph
InitBB84 ==
    /\ G \in {g \in Graphs : DOMAIN g.edge = {} /\ \A n \in Nodes : ~g.node[n].quantum}
    /\ POLICIES = BuiltinPolicies
    /\ hy = HybridIdle
    /\ rel = RelIdle
    /\ snd = SndIdle
    /\ qsim = SimIdle
    /\ csim = SimIdle
    /\ env = EnvIdle
    /\ hc = HcIdle
    /\ bb = BB84Idle
    /\ rng = RngIdle

NextBB84 ==
    \/ run_bb84
    \/ BB84Pulse
    \/ BB84Sample
    \/ BB84Decide

SpecBB84 == InitBB84 /\ [][NextBB84]_vars

\* ---------------------------------------------------------------------
\* Properties of run_bb84
\* ---------------------------------------------------------------------
\* the disclosed positions in which sender and receiver differ
SampledErrors == {k \in bb.idx : Sift(bb.pulses)[k].mismatch}

\* more than 11 % of the disclosed bits differ
QberTooHigh == 100 * Cardinality(SampledErrors) > 11 * Cardinality(bb.idx)

\* sifted positions with the given decoy tag, and the detected ones
Tagged(decoy) ==
    {k \in DOMAIN Sift(bb.pulses) : Sift(bb.pulses)[k].is_decoy = decoy}
Detected(decoy) == {k \in Tagged(decoy) : Sift(bb.pulses)[k].detection}

\* |yield_signal - yield_decoy| > 0.05, a yield over no position being 0
YieldGapTooHigh ==
    LET sn == Cardinality(Detected(FALSE))
        sd == IF Tagged(FALSE) = {} THEN 1 ELSE Cardinality(Tagged(FALSE))
        dn == Cardinality(Detected(TRUE))
        dd == IF Tagged(TRUE) = {} THEN 1 ELSE Cardinality(Tagged(TRUE))
    IN \/ 100 * (sn * dd - dn * sd) > 5 * sd * dd
       \/ 100 * (dn * sd - sn * dd) > 5 * sd * dd

\* C20: a finished run_bb84 aborted with 'QBER too high' exactly when the
\* sampled QBER exceeds the limit, whatever the yields; it aborted with
\* the decoy-state anomaly exactly when the QBER is within the limit and
\* the yield gap exceeds its limit; it succeeded with a key exactly when
\* both are within their limits.
C20_AbortOrderQberThenYield ==
    bb.pc = "done" =>
        /\ bb.result.msg = "Abort: QBER too high" <=> QberTooHigh
        /\ bb.result.msg = "Abort: decoy-state anomaly" <=>
              (~QberTooHigh /\ YieldGapTooHigh)
        /\ bb.result.success <=> (~QberTooHigh /\ ~YieldGapTooHigh)
        /\ bb.result.success <=> bb.result.key.kind = "sha3_256"
        /\ bb.result.success <=> bb.result.msg = ""

\* both tests would abort: the QBER reason is the one reported
C20_Witness ==
    /\ bb.pc = "done"
    /\ QberTooHigh
    /\ YieldGapTooHigh
    /\ bb.result.msg = "Abort: QBER too high"
    /\ ~bb.result.success

\* C21 (as claimed): run_bb84 never ends with an exception, whatever
\* n_qubits, the noise level, pns and the draws, runs with an empty sifted
\* string included; every run that has drawn all its positions goes on to
\* a tagged result.
C21_RunAlwaysReturns ==
    /\ bb.pc # "raised"
    /\ bb.pc = "done" =>
          /\ bb.result.success \in BOOLEAN
          /\ bb.result.success \/ bb.result.msg # ""

\* ---------------------------------------------------------------------
\* link_models.py: the hop models drawing from the module's seeded _rng
\* ---------------------------------------------------------------------
\* a value of _rng.random(), as the side of every threshold it falls on:
\* 0 below all of them, 1 above all of them
Uniforms == {0, 1}

\* a classical hop makes three draws (two for the first gauss, one for the
\* loss test; the second gauss is the cached one), a quantum hop one
DrawsPerCall == 3

\* the numbers random.Random(RNG_SEED) yields, in order: fixed by the seed
Streams == [1..(DrawsPerCall * MaxCalls) -> Uniforms]

\* the edges the hops are drawn on
HopEdges == {e \in EdgeData : e.distance_km = MaxDist} \cup
            {[quantum |-> TRUE, distance_km |-> 0]}

\* a call: which hop model, on which edge
HopCalls == [fn : {"simulate_quantum_hop", "simulate_classical_hop"},
             edge_data : HopEdges]

\* rng_random with one source shared by the two processes
rng_random_shared(st) ==
    [value |-> rng.stream[((rng.A.st.pos + rng.B.st.pos)
                              % (DrawsPerCall * MaxCalls)) + 1],
     st |-> [st EXCEPT !.pos = @ + 1]]

\* _rng.random(): the next number of the stream
rng_random(st) ==
    [value |-> rng.stream[st.pos + 1], st |-> [st EXCEPT !.pos = @ + 1]]

\* _rng.gauss(): the cached variate if there is one, else two numbers are
\* drawn, one variate is returned and its twin is cached
rng_gauss(st) ==
    IF st.gauss_next # <<>>
    THEN [value |-> st.gauss_next, st |-> [st EXCEPT !.gauss_next = <<>>]]
    ELSE LET x == rng_random(st)
             y == rng_random(x.st)
         IN [value |-> <<"cos", x.value, y.value>>,
             st |-> [y.st EXCEPT !.gauss_next = <<"sin", x.value, y.value>>]]

\* lines 32-49, on the process's _rng state: the result and the new state
QuantumHopDrawn(st, edge_data) ==
    LET d == rng_random(st)
    IN IF ~edge_data.quantum
       THEN [success |-> d.value = 1,                 \* random() > fail_prob
             m |-> [p_survive |-> "1 - fail_prob",
                    distance_km |-> edge_data.distance_km,
                    mode |-> "quantum_over_classical"],
             st |-> d.st]
       ELSE [success |-> \/ quantum_survival_prob(edge_data.distance_km) = "one"
                         \/ d.value = 0,              \* random() < p_survive
             m |-> [p_survive |-> quantum_survival_prob(edge_data.distance_km),
                    distance_km |-> edge_data.distance_km,
                    mode |-> "quantum"],
             st |-> d.st]

\* base + noise clipped at 0: a variate far below the mean gives p_loss = 0
PLossIsZero(z) == z[2] = 1 /\ z[3] = 1

\* lines 68-90: classical_loss_prob, the loss draw, classical_latency_ms
ClassicalHopDrawn(st, edge_data) ==
    LET noise == rng_gauss(st)
        d == rng_random(noise.st)
        jitter == rng_gauss(d.st)
    IN [success |-> d.value = 1 \/ PLossIsZero(noise.value),   \* random() > p_loss
        m |-> [p_loss |-> <<"clip", noise.value>>,
               latency_ms |-> <<"max0", edge_data.distance_km, jitter.value>>,
               distance_km |-> edge_data.distance_km,
               mode |-> "classical"],
        st |-> jitter.st]

HopDrawn(st, call) ==
    IF call.fn = "simulate_quantum_hop"
    THEN QuantumHopDrawn(st, call.edge_data)
    ELSE ClassicalHopDrawn(st, call.edge_data)

\* the next call of a process: its outcome is recorded, its _rng advanced
ProcessHop(proc) ==
    LET r == HopDrawn(proc.st, rng.calls[Len(proc.outs) + 1])
    IN [st |-> r.st, outs |-> Append(proc.outs, [success |-> r.success, m |-> r.m])]

\* process A makes its next hop call
ProcessAHop ==
    /\ rng.pc = "run"
    /\ Len(rng.A.outs) < Len(rng.calls)
    /\ rng' = [rng EXCEPT !.A = ProcessHop(rng.A)]
    /\ UNCHANGED <<G, routingVars, simVars, optVars, qkdVars>>

\* process B makes its next hop call
ProcessBHop ==
    /\ rng.pc = "run"
    /\ Len(rng.B.outs) < Len(rng.calls)
    /\ rng' = [rng EXCEPT !.B = ProcessHop(rng.B)]
    /\ UNCHANGED <<G, routingVars, simVars, optVars, qkdVars>>

\* two processes have imported link_models (each seeding its own _rng with
\* RNG_SEED) and are to issue the same sequence of hop calls
InitRng ==
    /\ G \in {g \in Graphs : DOMAIN g.edge = {} /\ \A n \in Nodes : ~g.node[n].quantum}
    /\ POLICIES = BuiltinPolicies
    /\ hy = HybridIdle
    /\ rel = RelIdle
    /\ snd = SndIdle
    /\ qsim = SimIdle
    /\ csim = SimIdle
    /\ env = EnvIdle
    /\ hc = HcIdle
    /\ bb = BB84Idle
    /\ \E stream \in Streams,
          calls \in UNION {[1..n -> HopCalls] : n \in 0..MaxCalls} :
          rng = [RngIdle EXCEPT !.pc = "run", !.stream = stream, !.calls = calls]

NextRng ==
    \/ ProcessAHop
    \/ ProcessBHop

SpecRng == InitRng /\ [][NextRng]_vars

QuantumConnected(g, src, dst) ==
    src = dst \/ has_path(QuantumEdges(g), src, dst)

C26_FallbackAlwaysExists ==
    (rel.pc = "done" /\ rel.policy \in DOMAIN BuiltinPolicies) =>
        IF rel.result.success
        THEN LET p == rel.result.path
             IN /\ p[1] = rel.src
                /\ p[Len(p)] = rel.dst
                /\ \A i \in 1..(Len(p) - 1) : HasEdge(G, p[i], p[i + 1])
        ELSE rel.result.reason # "no_classical_fallback"

\* the first planned hop, a quantum one, failed at src and the call
\* returned a path whose classical tail has two hops
C26_Witness ==
    /\ rel.pc = "done"
    /\ rel.policy \in DOMAIN BuiltinPolicies
    /\ rel.result.success
    /\ Len(rel.history) = 3
    /\ rel.history[1].mode = "quantum_path"
    /\ ~rel.history[1].success
    /\ Len(rel.tail) = 3
    /\ rel.result.path = rel.tail

\* ---------------------------------------------------------------------
\* Properties of the hop-by-hop walk of send_message_reliable
\* ---------------------------------------------------------------------
\* the plan being walked has two hops or more, all of them quantum links,
\* and an intermediate node that cannot store entanglement
PlanNeedsImpossibleSwap ==
    /\ rel.pc \in {"walk", "tail", "done"}
    /\ Len(rel.full_path) >= 3
    /\ IsPathIn(QuantumEdges(G), rel.full_path)
    /\ \E k \in 2..(Len(rel.full_path) - 1) :
          ~_node_can_swap(G, rel.full_path[k])

\* C27: send_message_reliable never calls simulate_entanglement_swap:
\* every planned quantum link is simulated as a one-edge path, whose record
\* has one hop and carries the outcome of that hop's draw alone.  A plan of
\* several quantum links through a node that cannot store entanglement
\* never succeeds when simulate_path_quantum is given the whole path (as
\* send_message does), yet the walk treats each of its links on its own.
C27_WalkDrawsNoSwap ==
    /\ rel.swaps = 0
    /\ \A k \in 1..Len(rel.history) :
          rel.history[k].mode = "quantum_path" =>
             /\ rel.history[k].hops = 1
             /\ Len(rel.history[k].path) = 2
    /\ PlanNeedsImpossibleSwap =>
          \A m \in simulate_path_quantum(G, rel.full_path) : ~m.success

\* a plan of two quantum links through a node that cannot store
\* entanglement was walked to the end, both hops succeeding as quantum,
\* with no fallback
C27_Witness ==
    /\ PlanNeedsImpossibleSwap
    /\ rel.pc = "done"
    /\ rel.result.success
    /\ rel.result.path = rel.full_path
    /\ rel.tail = <<>>
    /\ Len(rel.history) = 2
    /\ \A k \in 1..2 : rel.history[k].mode = "quantum_path" /\ rel.history[k].success

====
